---- MODULE Spec2Model ----
(***************************************************************************)
(* y-shindoh/multi_queue: ys::MultiQueue<TYPE, SIZE>, SIZE FIFO sub-queues *)
(* that can also be read and drained as one queue in insertion order.      *)
(*                                                                         *)
(* The repository holds two implementations of the same class, and both    *)
(* are modelled here, driven side by side by the same sequence of calls:   *)
(*   A = src/multi_queue.hpp     every element carries a tag (count_), and *)
(*                               front()/dequeue() scan the SIZE fronts;   *)
(*   B = src/unnamed/part_000    a queue of sub-queue indices in insertion *)
(*                               order, with lazy deletion (remain_).      *)
(* A call that ends either run (assertion failure, undefined behaviour)    *)
(* ends the comparison.                                                    *)
(***************************************************************************)
EXTENDS Integers, Sequences, FiniteSets

\* ---------------------------------------------------------------- bounds
\* Template parameter SIZE as main.cpp instantiates it: MultiQueue<char, 2>.
SIZE == 2

\* ULONG_MAX scaled down (see ULONG_MAX below) so that the insertion counter
\* can be exhausted within MaxEnq enqueue calls.
ScaledMax == 4

\* Total number of enqueue calls in one run.
MaxEnq == 5

\* char data[] = "ccccddcdcdccdd" of main.cpp, and its length.
Data == <<"c", "c", "c", "c", "d", "d", "c", "d", "c", "d", "c", "c", "d", "d">>
DataLen == 14

\* TYPE: the values the caller stores (main.cpp stores 'c' and 'd').
Values == {"c", "d"}

Index == 0 .. (SIZE - 1)      \* the valid sub-queue indices
AnyIndex == 0 .. SIZE         \* what a caller may pass: SIZE is out of range

\* ----------------------------------------------------------------- state
VARIABLES
    NDEBUG,         \* the build: TRUE when assert() is compiled out
    \* A: src/multi_queue.hpp
    queues_,        \* queues_[i]: sequence of Units [first, second] (+ ghost g)
    count_,         \* tag of the next element
    length_,        \* number of elements held
    statusA,        \* "run", "abort" (assertion failure), "ub"
    retA,           \* what the last call returned
    \* B: src/unnamed/part_000
    index_queue_,   \* sequence of sub-queue indices, insertion order
    data_queue_,    \* data_queue_[i]: sequence of [data] (+ ghost g)
    remain_,        \* remain_[i]: entries of i in index_queue_ still to purge
    length_B,       \* length_ of part_000
    statusB,
    retB,
    \* the caller
    call,           \* the last call: [op, i, v] and ghost fields, see Call
    gseq,           \* ghost: number of enqueue calls made so far
    pc              \* the driver: [s, ph, n], see the drivers below

varsA == <<queues_, count_, length_, statusA, retA>>
varsB == <<index_queue_, data_queue_, remain_, length_B, statusB, retB>>
vars == <<NDEBUG, queues_, count_, length_, statusA, retA,
          index_queue_, data_queue_, remain_, length_B, statusB, retB,
          call, gseq, pc>>

\* The drivers.  pc.s = 0 is the caller that makes any call in any order
\* (Spec); pc.s = 1 and 2 run the two call sequences of Script, pc.n calls
\* of which have been made; pc.s = 3 is main() of main.cpp, at the statement
\* pc.ph, with pc.n characters of data[] enqueued (SpecMain).
AnyCaller == [s |-> 0, ph |-> "calls", n |-> 0]

\* ULONG_MAX, which only count_ is compared with (multi_queue.hpp:178-179).
\* count_ is a size_t taken to have the width of unsigned long, so ++count_
\* is computed modulo ULONG_MAX + 1.  For the caller of Spec it is scaled
\* down to ScaledMax, within reach of MaxEnq enqueues; the scripted runs,
\* like any real run of main(), stay below it.  The element counts (length_,
\* the deques' sizes, remain_) are bounded by the elements held in memory
\* and never get near the real 2^w, so they are plain integers here.
ULONG_MAX == IF pc.s = 0 THEN ScaledMax ELSE ScaledMax + DataLen

\* The ghost field g of an element is the number of the enqueue call that
\* stored it.  No operation reads it; only the properties do.

\* What a call with undefined behaviour may be seen to do.
UBOutcomes == Values \cup {"void", "crash"}

\* MultiQueue(), in either build, before any call.
Construct ==
    /\ NDEBUG \in BOOLEAN
    /\ queues_ = [i \in Index |-> <<>>]
    /\ count_ = 0
    /\ length_ = 0
    /\ statusA = "run"
    /\ retA = "void"
    /\ index_queue_ = <<>>
    /\ data_queue_ = [i \in Index |-> <<>>]
    /\ remain_ = [i \in Index |-> 0]
    /\ length_B = 0
    /\ statusB = "run"
    /\ retB = "void"
    /\ call = [op |-> "new", i |-> 0, v |-> "c",
               preA |-> TRUE, preB |-> TRUE, full |-> FALSE]
    /\ gseq = 0

Init == Construct /\ pc = AnyCaller

\* ------------------------------------------------- A: src/multi_queue.hpp

\* assert(false): the process aborts, nothing is changed any more.
AbortA ==
    /\ statusA' = "abort"
    /\ retA' = "abort"
    /\ UNCHANGED <<queues_, count_, length_>>

\* Undefined behaviour (out-of-range subscript, front()/pop_front() of an
\* empty deque): the run is not followed any further; what the caller sees
\* is any of UBOutcomes.
UndefinedA ==
    /\ statusA' = "ub"
    /\ retA' \in UBOutcomes
    /\ UNCHANGED <<queues_, count_, length_>>

\* A failed assert(): abort, or nothing at all when compiled with NDEBUG.
\* FailedAssertA(rest): `rest` is what the code goes on to do under NDEBUG.
FailedAssertA(rest) == IF NDEBUG THEN rest ELSE AbortA

\* Mutant of find_loop: the comparison of the tags turned round, so that the
\* scan keeps the newest front.
RECURSIVE find_loop_newest(_, _, _, _)
find_loop_newest(q, i, k, id) ==
    IF ~(i < SIZE) THEN k
    ELSE IF q[i] = <<>> THEN find_loop_newest(q, i + 1, k, id)
    ELSE LET t == Head(q[i]).first IN
         IF k < SIZE /\ t <= id THEN find_loop_newest(q, i + 1, k, id)
         ELSE find_loop_newest(q, i + 1, i, t)

\* The loop of find_oldest_front from index i on, with k and id as they are
\* at the top of the iteration.  id is uninitialised until k < SIZE, and is
\* not read before (k < SIZE && ... short-circuits).
RECURSIVE find_loop(_, _, _, _)
find_loop(q, i, k, id) ==
    IF ~(i < SIZE) THEN k
    ELSE IF q[i] = <<>> THEN find_loop(q, i + 1, k, id)
    ELSE LET t == Head(q[i]).first IN
         IF k < SIZE /\ id <= t THEN find_loop(q, i + 1, k, id)
         ELSE find_loop(q, i + 1, i, t)

\* Mutant of find_oldest_front: the scan starts at index 1.
find_oldest_front_from_1(q) == find_loop(q, 1, SIZE, 0)

\* size_t find_oldest_front() const, on the sub-queues q
find_oldest_front(q) == find_loop(q, 0, SIZE, 0)

sizeA == length_
sizeAi(i) == Len(queues_[i])
emptyA == 0 = length_
emptyAi(i) == queues_[i] = <<>>

\* TYPE front() const
frontA ==
    LET body ==
            LET i == find_oldest_front(queues_) IN
            IF i < SIZE
            THEN /\ retA' = Head(queues_[i]).second
                 /\ UNCHANGED <<queues_, count_, length_, statusA>>
            ELSE FailedAssertA(UndefinedA)
    IN  IF 0 < length_ THEN body ELSE FailedAssertA(body)

\* Mutant of frontAi: assert(!queues_[i].empty()) left out.
frontAi_unchecked(i) ==
    IF ~(i < SIZE) THEN FailedAssertA(UndefinedA)
    ELSE IF queues_[i] = <<>> THEN UndefinedA
    ELSE /\ retA' = Head(queues_[i]).second
         /\ UNCHANGED <<queues_, count_, length_, statusA>>

\* TYPE front(size_t i) const
frontAi(i) ==
    IF ~(i < SIZE) THEN FailedAssertA(UndefinedA)
    ELSE IF queues_[i] = <<>> THEN FailedAssertA(UndefinedA)
    ELSE /\ retA' = Head(queues_[i]).second
         /\ UNCHANGED <<queues_, count_, length_, statusA>>

\* Mutant of enqueueA: the check of count_ against ULONG_MAX left out.
enqueueA_unchecked(i, data, g) ==
    IF ~(i < SIZE) THEN FailedAssertA(UndefinedA)
    ELSE /\ queues_' = [queues_ EXCEPT
                ![i] = Append(@, [first |-> count_, second |-> data, g |-> g])]
         /\ count_' = (count_ + 1) % (ULONG_MAX + 1)
         /\ length_' = length_ + 1
         /\ retA' = "true"
         /\ UNCHANGED statusA

\* Mutant of enqueueA: ++count_ left out.
enqueueA_same_tag(i, data, g) ==
    IF ~(i < SIZE) THEN FailedAssertA(UndefinedA)
    ELSE IF ~(count_ < ULONG_MAX)
    THEN FailedAssertA(/\ retA' = "false"
                       /\ UNCHANGED <<queues_, count_, length_, statusA>>)
    ELSE /\ queues_' = [queues_ EXCEPT
                ![i] = Append(@, [first |-> count_, second |-> data, g |-> g])]
         /\ length_' = length_ + 1
         /\ retA' = "true"
         /\ UNCHANGED <<count_, statusA>>

\* bool enqueue(size_t i, const TYPE& data); g is the ghost stamp
enqueueA(i, data, g) ==
    IF ~(i < SIZE) THEN FailedAssertA(UndefinedA)
    ELSE IF ~(count_ < ULONG_MAX)
    THEN FailedAssertA(/\ retA' = "false"
                       /\ UNCHANGED <<queues_, count_, length_, statusA>>)
    ELSE /\ queues_' = [queues_ EXCEPT
                ![i] = Append(@, [first |-> count_, second |-> data, g |-> g])]
         /\ count_' = (count_ + 1) % (ULONG_MAX + 1)
         /\ length_' = length_ + 1
         /\ retA' = "true"
         /\ UNCHANGED statusA

\* Mutant of popA: --length_ left out.
popA_keep_length(i) ==
    /\ queues_' = [queues_ EXCEPT ![i] = Tail(@)]
    /\ count_' = IF length_ - 1 = 0 THEN 0 ELSE count_
    /\ retA' = "void"
    /\ UNCHANGED <<length_, statusA>>

\* Mutant of popA: count_ reset when the sub-queue popped becomes empty,
\* not when the whole structure does.
popA_reset_early(i) ==
    /\ queues_' = [queues_ EXCEPT ![i] = Tail(@)]
    /\ length_' = length_ - 1
    /\ count_' = IF Len(queues_[i]) = 1 THEN 0 ELSE count_
    /\ retA' = "void"
    /\ UNCHANGED statusA

\* Mutant of popA: the reset of count_ left out.
popA_no_reset(i) ==
    /\ queues_' = [queues_ EXCEPT ![i] = Tail(@)]
    /\ length_' = length_ - 1
    /\ retA' = "void"
    /\ UNCHANGED <<count_, statusA>>

\* The common tail of both dequeues: pop queues_[i], --length_, reset count_.
popA(i) ==
    /\ queues_' = [queues_ EXCEPT ![i] = Tail(@)]
    /\ length_' = length_ - 1
    /\ count_' = IF length_ - 1 = 0 THEN 0 ELSE count_
    /\ retA' = "void"
    /\ UNCHANGED statusA

\* Mutant of dequeueA: the pop without the bookkeeping of length_ and count_.
dequeueA_pop_only ==
    IF 0 < length_
    THEN LET i == find_oldest_front(queues_) IN
         IF i < SIZE
         THEN /\ queues_' = [queues_ EXCEPT ![i] = Tail(@)]
              /\ retA' = "void"
              /\ UNCHANGED <<count_, length_, statusA>>
         ELSE FailedAssertA(UndefinedA)
    ELSE /\ retA' = "void"
         /\ UNCHANGED <<queues_, count_, length_, statusA>>

\* void dequeue()
dequeueA ==
    IF 0 < length_
    THEN LET i == find_oldest_front(queues_) IN
         IF i < SIZE THEN popA(i) ELSE FailedAssertA(UndefinedA)
    ELSE /\ retA' = "void"
         /\ UNCHANGED <<queues_, count_, length_, statusA>>

\* Mutant of dequeueAi: an empty sub-queue is asserted against, as in
\* part_000, instead of being skipped.
dequeueAi_asserts(i) ==
    IF ~(i < SIZE) THEN FailedAssertA(UndefinedA)
    ELSE IF 0 < Len(queues_[i]) THEN popA(i)
    ELSE FailedAssertA(UndefinedA)

\* Mutant of dequeueAi: the sub-queue to pop is looked up as dequeue() does,
\* the argument is only checked.
dequeueAi_oldest(i) ==
    IF ~(i < SIZE) THEN FailedAssertA(UndefinedA)
    ELSE IF 0 < Len(queues_[i]) THEN popA(find_oldest_front(queues_))
    ELSE /\ retA' = "void"
         /\ UNCHANGED <<queues_, count_, length_, statusA>>

\* void dequeue(size_t i)
dequeueAi(i) ==
    IF ~(i < SIZE) THEN FailedAssertA(UndefinedA)
    ELSE IF 0 < Len(queues_[i]) THEN popA(i)
    ELSE /\ retA' = "void"
         /\ UNCHANGED <<queues_, count_, length_, statusA>>

\* ------------------------------------------------ B: src/unnamed/part_000

AbortB ==
    /\ statusB' = "abort"
    /\ retB' = "abort"
    /\ UNCHANGED <<index_queue_, data_queue_, remain_, length_B>>

UndefinedB ==
    /\ statusB' = "ub"
    /\ retB' \in UBOutcomes
    /\ UNCHANGED <<index_queue_, data_queue_, remain_, length_B>>

FailedAssertB(rest) == IF NDEBUG THEN rest ELSE AbortB

\* Mutant of adjust_deque: the deficit is not counted down as entries go.
RECURSIVE adjust_deque_keep_remain(_, _)
adjust_deque_keep_remain(iq, rem) ==
    IF iq = <<>> THEN [iq |-> iq, rem |-> rem]
    ELSE LET i == Head(iq) IN
         IF rem[i] = 0 THEN [iq |-> iq, rem |-> rem]
         ELSE adjust_deque_keep_remain(Tail(iq), rem)

\* Mutant of adjust_deque: no purge at all.
adjust_deque_none(iq, rem) == [iq |-> iq, rem |-> rem]

\* void adjust_deque(): the while loop, on index queue iq and deficits rem;
\* the result is the pair it leaves in index_queue_ and remain_.
RECURSIVE adjust_deque(_, _)
adjust_deque(iq, rem) ==
    IF iq = <<>> THEN [iq |-> iq, rem |-> rem]
    ELSE LET i == Head(iq) IN
         IF rem[i] = 0 THEN [iq |-> iq, rem |-> rem]
         ELSE adjust_deque(Tail(iq), [rem EXCEPT ![i] = @ - 1])

sizeB == length_B
sizeBi(i) == Len(data_queue_[i])
emptyB == index_queue_ = <<>>
emptyBi(i) == data_queue_[i] = <<>>

\* TYPE front() const
frontB ==
    LET body ==
            IF index_queue_ = <<>> THEN UndefinedB
            ELSE LET i == Head(index_queue_) IN
                 IF data_queue_[i] = <<>> THEN UndefinedB
                 ELSE /\ retB' = Head(data_queue_[i]).data
                      /\ UNCHANGED <<index_queue_, data_queue_, remain_,
                                     length_B, statusB>>
    IN  IF index_queue_ # <<>> THEN body ELSE FailedAssertB(body)

\* TYPE front(size_t i) const
frontBi(i) ==
    IF ~(i < SIZE) THEN FailedAssertB(UndefinedB)
    ELSE IF data_queue_[i] = <<>> THEN FailedAssertB(UndefinedB)
    ELSE /\ retB' = Head(data_queue_[i]).data
         /\ UNCHANGED <<index_queue_, data_queue_, remain_, length_B, statusB>>

\* Mutant of enqueueB: push_front() for push_back() on index_queue_.
enqueueB_push_front(i, data, g) ==
    IF ~(i < SIZE) THEN FailedAssertB(UndefinedB)
    ELSE /\ index_queue_' = <<i>> \o index_queue_
         /\ data_queue_' = [data_queue_ EXCEPT
                ![i] = Append(@, [data |-> data, g |-> g])]
         /\ length_B' = length_B + 1
         /\ retB' = "void"
         /\ UNCHANGED <<remain_, statusB>>

\* void enqueue(size_t i, const TYPE& data); g is the ghost stamp
enqueueB(i, data, g) ==
    IF ~(i < SIZE) THEN FailedAssertB(UndefinedB)
    ELSE /\ index_queue_' = Append(index_queue_, i)
         /\ data_queue_' = [data_queue_ EXCEPT
                ![i] = Append(@, [data |-> data, g |-> g])]
         /\ length_B' = length_B + 1
         /\ retB' = "void"
         /\ UNCHANGED <<remain_, statusB>>

\* Mutant of dequeueB: adjust_deque() not called after the pops.
dequeueB_no_adjust ==
    LET body ==
            IF index_queue_ = <<>> THEN UndefinedB
            ELSE LET i == Head(index_queue_) IN
                 IF data_queue_[i] = <<>> THEN UndefinedB
                 ELSE /\ data_queue_' = [data_queue_ EXCEPT ![i] = Tail(@)]
                      /\ index_queue_' = Tail(index_queue_)
                      /\ length_B' = length_B - 1
                      /\ retB' = "void"
                      /\ UNCHANGED <<remain_, statusB>>
    IN  IF index_queue_ # <<>> THEN body ELSE FailedAssertB(body)

\* void dequeue()
dequeueB ==
    LET body ==
            IF index_queue_ = <<>> THEN UndefinedB
            ELSE LET i == Head(index_queue_) IN
                 IF data_queue_[i] = <<>> THEN UndefinedB
                 ELSE LET adj == adjust_deque(Tail(index_queue_), remain_) IN
                      /\ data_queue_' = [data_queue_ EXCEPT ![i] = Tail(@)]
                      /\ index_queue_' = adj.iq
                      /\ remain_' = adj.rem
                      /\ length_B' = length_B - 1
                      /\ retB' = "void"
                      /\ UNCHANGED statusB
    IN  IF index_queue_ # <<>> THEN body ELSE FailedAssertB(body)

\* Mutant of dequeueBi: adjust_deque() not called after the pop of the index.
dequeueBi_no_adjust(i) ==
    IF ~(i < SIZE) THEN FailedAssertB(UndefinedB)
    ELSE IF data_queue_[i] = <<>> THEN FailedAssertB(UndefinedB)
    ELSE IF index_queue_ = <<>> THEN UndefinedB
    ELSE /\ data_queue_' = [data_queue_ EXCEPT ![i] = Tail(@)]
         /\ IF i = Head(index_queue_)
            THEN /\ index_queue_' = Tail(index_queue_)
                 /\ UNCHANGED remain_
            ELSE /\ remain_' = [remain_ EXCEPT ![i] = @ + 1]
                 /\ UNCHANGED index_queue_
         /\ length_B' = length_B - 1
         /\ retB' = "void"
         /\ UNCHANGED statusB

\* Mutant of dequeueBi: ++remain_[i] left out.
dequeueBi_no_remain(i) ==
    IF ~(i < SIZE) THEN FailedAssertB(UndefinedB)
    ELSE IF data_queue_[i] = <<>> THEN FailedAssertB(UndefinedB)
    ELSE IF index_queue_ = <<>> THEN UndefinedB
    ELSE /\ data_queue_' = [data_queue_ EXCEPT ![i] = Tail(@)]
         /\ IF i = Head(index_queue_)
            THEN LET adj == adjust_deque(Tail(index_queue_), remain_) IN
                 /\ index_queue_' = adj.iq
                 /\ remain_' = adj.rem
            ELSE UNCHANGED <<remain_, index_queue_>>
         /\ length_B' = length_B - 1
         /\ retB' = "void"
         /\ UNCHANGED statusB

\* Mutant of dequeueBi: pop_back() for pop_front() on the data queue.
dequeueBi_pop_back(i) ==
    IF ~(i < SIZE) THEN FailedAssertB(UndefinedB)
    ELSE IF data_queue_[i] = <<>> THEN FailedAssertB(UndefinedB)
    ELSE IF index_queue_ = <<>> THEN UndefinedB
    ELSE /\ data_queue_' = [data_queue_ EXCEPT
                ![i] = SubSeq(@, 1, Len(@) - 1)]
         /\ IF i = Head(index_queue_)
            THEN LET adj == adjust_deque(Tail(index_queue_), remain_) IN
                 /\ index_queue_' = adj.iq
                 /\ remain_' = adj.rem
            ELSE /\ remain_' = [remain_ EXCEPT ![i] = @ + 1]
                 /\ UNCHANGED index_queue_
         /\ length_B' = length_B - 1
         /\ retB' = "void"
         /\ UNCHANGED statusB

\* void dequeue(size_t i)
dequeueBi(i) ==
    IF ~(i < SIZE) THEN FailedAssertB(UndefinedB)
    ELSE IF data_queue_[i] = <<>> THEN FailedAssertB(UndefinedB)
    ELSE IF index_queue_ = <<>> THEN UndefinedB
    ELSE /\ data_queue_' = [data_queue_ EXCEPT ![i] = Tail(@)]
         /\ IF i = Head(index_queue_)
            THEN LET adj == adjust_deque(Tail(index_queue_), remain_) IN
                 /\ index_queue_' = adj.iq
                 /\ remain_' = adj.rem
            ELSE /\ remain_' = [remain_ EXCEPT ![i] = @ + 1]
                 /\ UNCHANGED index_queue_
         /\ length_B' = length_B - 1
         /\ retB' = "void"
         /\ UNCHANGED statusB

\* ------------------------------------------------------------ the caller
\* The caller makes the same call on A and on B.  It goes on for as long as
\* both are running: an assertion failure or undefined behaviour in either
\* ends the run.  Beside the call, `call` records (ghost) whether the call
\* met the operation's precondition on A and on B when it was made, and
\* whether A's insertion counter was exhausted then.
Running == statusA = "run" /\ statusB = "run"

Call(op, i, v, preA, preB) ==
    [op |-> op, i |-> i, v |-> v, preA |-> preA, preB |-> preB,
     full |-> ~(count_ < ULONG_MAX)]

\* One call of each operation, made on A and on B.
CallEnqueue(i, v) ==
    /\ Running
    /\ enqueueA(i, v, gseq)
    /\ enqueueB(i, v, gseq)
    /\ gseq' = gseq + 1
    /\ call' = Call("enqueue", i, v, i < SIZE, i < SIZE)
    /\ UNCHANGED NDEBUG

CallFront ==
    /\ Running
    /\ frontA
    /\ frontB
    /\ call' = Call("front", 0, "c", ~emptyA, ~emptyB)
    /\ UNCHANGED <<NDEBUG, gseq>>

CallFrontI(i) ==
    /\ Running
    /\ frontAi(i)
    /\ frontBi(i)
    /\ call' = Call("front_i", i, "c",
                    i < SIZE /\ ~emptyAi(i), i < SIZE /\ ~emptyBi(i))
    /\ UNCHANGED <<NDEBUG, gseq>>

CallDequeue ==
    /\ Running
    /\ dequeueA
    /\ dequeueB
    /\ call' = Call("dequeue", 0, "c", ~emptyA, ~emptyB)
    /\ UNCHANGED <<NDEBUG, gseq>>

CallDequeueI(i) ==
    /\ Running
    /\ dequeueAi(i)
    /\ dequeueBi(i)
    /\ call' = Call("dequeue_i", i, "c",
                    i < SIZE /\ ~emptyAi(i), i < SIZE /\ ~emptyBi(i))
    /\ UNCHANGED <<NDEBUG, gseq>>

\* The caller of Spec: any call, with any index and value, at any time.
Enqueue ==
    \E i \in AnyIndex, v \in Values :
        /\ gseq < MaxEnq
        /\ CallEnqueue(i, v)
        /\ UNCHANGED pc

Front == CallFront /\ UNCHANGED pc

FrontI == \E i \in AnyIndex : CallFrontI(i) /\ UNCHANGED pc

Dequeue == CallDequeue /\ UNCHANGED pc

DequeueI == \E i \in AnyIndex : CallDequeueI(i) /\ UNCHANGED pc

Next == Enqueue \/ Front \/ FrontI \/ Dequeue \/ DequeueI

Spec == Init /\ [][Next]_vars

\* ------------------------------------------------------- scripted drivers
\* The sub-queue main() routes a character to: data[i] == 'c' ? 0 : 1.
Route(ch) == IF ch = "c" THEN 0 ELSE 1

Enq(i, v) == [op |-> "enqueue", i |-> i, v |-> v]
Op(op, i) == [op |-> op, i |-> i, v |-> "c"]
RECURSIVE Repeat(_, _)
Repeat(sq, n) == IF n = 0 THEN <<>> ELSE sq \o Repeat(sq, n - 1)

\* The enqueue loop of main(): every character of data[], routed.
EnqueueData == [n \in 1 .. DataLen |-> Enq(Route(Data[n]), Data[n])]

\* How many characters of data[] are ch.
Count(ch) == Cardinality({n \in 1 .. DataLen : Data[n] = ch})

\* The enqueues of main(), then sub-queue 1 drained by n1 front(1),
\* dequeue(1), then sub-queue 0 by n0 front(0), dequeue(0).
Drain(n1, n0) ==
    EnqueueData
        \o Repeat(<<Op("front_i", 1), Op("dequeue_i", 1)>>, n1)
        \o Repeat(<<Op("front_i", 0), Op("dequeue_i", 0)>>, n0)

\* Script(1): the drain with five dequeue(1) and nine dequeue(0).
\* Script(2): a -> 0, b -> 1, c -> 0, front(), dequeue(), front(), dequeue(0).
\* Script(4): the drain with as many dequeue(1) as data[] has 'd' and as
\* many dequeue(0) as it has 'c'.
Script(k) ==
    CASE k = 1 -> Drain(5, 9)
      [] k = 2 -> <<Enq(0, "a"), Enq(1, "b"), Enq(0, "c"),
                    Op("front", 0), Op("dequeue", 0), Op("front", 0),
                    Op("dequeue_i", 0)>>
      [] k = 4 -> Drain(Count("d"), Count("c"))

Do(c) ==
    CASE c.op = "enqueue" -> CallEnqueue(c.i, c.v)
      [] c.op = "front" -> CallFront
      [] c.op = "front_i" -> CallFrontI(c.i)
      [] c.op = "dequeue" -> CallDequeue
      [] c.op = "dequeue_i" -> CallDequeueI(c.i)

ScriptStep ==
    /\ pc.s \in {1, 2, 4}
    /\ pc.n < Len(Script(pc.s))
    /\ Do(Script(pc.s)[pc.n + 1])
    /\ pc' = [pc EXCEPT !.n = @ + 1]

\* main() of main.cpp, which includes multi_queue.hpp: its tests read A.
\* A test that makes no call on the queue only moves pc.
Goto(ph) ==
    /\ pc' = [pc EXCEPT !.ph = ph]
    /\ UNCHANGED <<NDEBUG, queues_, count_, length_, statusA, retA,
                   index_queue_, data_queue_, remain_, length_B, statusB, retB,
                   call, gseq>>

\* for (size_t i(0); data[i]; ++i) queue->enqueue(data[i] == 'c' ? 0 : 1, data[i]);
MainFor ==
    /\ pc.s = 3 /\ pc.ph = "for"
    /\ IF pc.n < DataLen
       THEN /\ CallEnqueue(Route(Data[pc.n + 1]), Data[pc.n + 1])
            /\ pc' = [pc EXCEPT !.n = @ + 1]
       ELSE Goto("if")

\* if (!queue->empty(1)) { printf(.., queue->size(1), queue->front(1));
MainIf ==
    /\ pc.s = 3 /\ pc.ph = "if"
    /\ IF ~emptyAi(1)
       THEN CallFrontI(1) /\ pc' = [pc EXCEPT !.ph = "if_dequeue"]
       ELSE Goto("while0")

\*   queue->dequeue(1); }
MainIfDequeue ==
    /\ pc.s = 3 /\ pc.ph = "if_dequeue"
    /\ CallDequeueI(1)
    /\ pc' = [pc EXCEPT !.ph = "while0"]

\* while (!queue->empty(0)) { printf(.., queue->size(0), queue->front(0));
MainWhile0 ==
    /\ pc.s = 3 /\ pc.ph = "while0"
    /\ IF ~emptyAi(0)
       THEN CallFrontI(0) /\ pc' = [pc EXCEPT !.ph = "while0_dequeue"]
       ELSE Goto("while")

\*   queue->dequeue(0); }
MainWhile0Dequeue ==
    /\ pc.s = 3 /\ pc.ph = "while0_dequeue"
    /\ CallDequeueI(0)
    /\ pc' = [pc EXCEPT !.ph = "while0"]

\* while (!queue->empty()) { printf(.., queue->size(), queue->front());
MainWhile ==
    /\ pc.s = 3 /\ pc.ph = "while"
    /\ IF ~emptyA
       THEN CallFront /\ pc' = [pc EXCEPT !.ph = "while_dequeue"]
       ELSE Goto("done")

\*   queue->dequeue(); }
MainWhileDequeue ==
    /\ pc.s = 3 /\ pc.ph = "while_dequeue"
    /\ CallDequeue
    /\ pc' = [pc EXCEPT !.ph = "while"]

InitMain ==
    /\ Construct
    /\ pc \in {[s |-> 1, ph |-> "script", n |-> 0],
               [s |-> 2, ph |-> "script", n |-> 0],
               [s |-> 3, ph |-> "for", n |-> 0],
               [s |-> 4, ph |-> "script", n |-> 0]}

NextMain ==
    \/ ScriptStep
    \/ MainFor \/ MainIf \/ MainIfDequeue
    \/ MainWhile0 \/ MainWhile0Dequeue
    \/ MainWhile \/ MainWhileDequeue

SpecMain == InitMain /\ [][NextMain]_vars


\* ------------------------------------------------------ ghost vocabulary
\* The insertion order the properties speak of is the order of the enqueue
\* calls, which the ghost stamps g record.

\* The stamps of the elements held in the sub-queues q (queues_ or data_queue_).
Stamps(q) == UNION {{q[i][n].g : n \in 1 .. Len(q[i])} : i \in Index}
Oldest(S) == CHOOSE m \in S : \A x \in S : m <= x
\* The sub-queue of q that holds the element stamped g.
Owner(q, g) == CHOOSE i \in Index : \E n \in 1 .. Len(q[i]) : q[i][n].g = g
\* The sum of the sub-queues' sizes.
RECURSIVE SumLen(_, _)
SumLen(q, n) == IF n = 0 THEN 0 ELSE Len(q[n - 1]) + SumLen(q, n - 1)

\* ------------------------------------------------------------------ C1
\* C1 (global order): whenever some sub-queue holds a value, front() reads
\* the element enqueued earliest among all elements held: in A the sub-queue
\* find_oldest_front names, in B the one at the front of index_queue_, has at
\* its front the element with the smallest stamp; and a front() call made in
\* such a state returned that element's value.
GlobalOrderA ==
    Stamps(queues_) # {} =>
        LET k == find_oldest_front(queues_) IN
        /\ k < SIZE
        /\ queues_[k] # <<>>
        /\ Head(queues_[k]).g = Oldest(Stamps(queues_))
        /\ call.op = "front" => retA = Head(queues_[k]).second

GlobalOrderB ==
    Stamps(data_queue_) # {} =>
        /\ index_queue_ # <<>>
        /\ LET k == Head(index_queue_) IN
           /\ data_queue_[k] # <<>>
           /\ Head(data_queue_[k]).g = Oldest(Stamps(data_queue_))
           /\ call.op = "front" => retB = Head(data_queue_[k]).data

GlobalOrder == GlobalOrderA /\ GlobalOrderB

\* front() has just returned the older of two held elements, which sits in
\* sub-queue 1 behind a stale index entry left by dequeue(0), and is a
\* different value from the front of sub-queue 0.
GlobalOrderWitness ==
    /\ call.op = "front"
    /\ Running
    /\ retA = "d" /\ retB = "d"
    /\ queues_[0] # <<>> /\ Head(queues_[0]).second = "c"
    /\ remain_[0] > 0
    /\ Len(data_queue_[1]) >= 1 /\ Len(data_queue_[0]) >= 1

\* ------------------------------------------------------------------ C2
\* C2 (dequeue()): a dequeue() made when the structure is not empty removes
\* the element with the smallest stamp -- the one front() reads -- from the
\* front of the sub-queue that holds it, takes one off size(), and leaves
\* every other sub-queue as it was.
DequeueRemovesOldestA ==
    (call'.op = "dequeue" /\ Stamps(queues_) # {}) =>
        LET k == Owner(queues_, Oldest(Stamps(queues_))) IN
        /\ k = find_oldest_front(queues_)
        /\ Head(queues_[k]).g = Oldest(Stamps(queues_))
        /\ queues_' = [queues_ EXCEPT ![k] = Tail(@)]
        /\ sizeA' = sizeA - 1
        /\ statusA' = "run"

DequeueRemovesOldestB ==
    (call'.op = "dequeue" /\ Stamps(data_queue_) # {}) =>
        LET k == Owner(data_queue_, Oldest(Stamps(data_queue_))) IN
        /\ k = Head(index_queue_)
        /\ Head(data_queue_[k]).g = Oldest(Stamps(data_queue_))
        /\ data_queue_' = [data_queue_ EXCEPT ![k] = Tail(@)]
        /\ sizeB' = sizeB - 1
        /\ statusB' = "run"

DequeueRemovesOldest ==
    [][DequeueRemovesOldestA /\ DequeueRemovesOldestB]_vars

\* dequeue() has just removed the global front of a non-empty structure in
\* which an earlier dequeue(1) had left a stale entry in index_queue_; the
\* entry is still there, and both sub-queues still hold values.
DequeueRemovesOldestWitness ==
    /\ call.op = "dequeue" /\ call.preA /\ call.preB
    /\ Running
    /\ remain_[1] >= 1
    /\ queues_[0] # <<>> /\ queues_[1] # <<>>
    /\ data_queue_[0] # <<>> /\ data_queue_[1] # <<>>
    /\ gseq >= 4

\* ------------------------------------------------------------------ C3
\* C3 (length invariant): in every reachable state size() is the sum of
\* size(i) over the sub-queues, in A and in B.
LengthInvariant ==
    /\ sizeA = SumLen(queues_, SIZE)
    /\ sizeB = SumLen(data_queue_, SIZE)
    /\ \A i \in Index : sizeAi(i) = Len(queues_[i]) /\ sizeBi(i) = Len(data_queue_[i])

\* Both sub-queues hold something after enqueues, a dequeue(i) and a dequeue().
LengthInvariantWitness ==
    /\ Running
    /\ call.op = "dequeue"
    /\ sizeA = 2 /\ sizeB = 2
    /\ sizeAi(0) = 1 /\ sizeAi(1) = 1
    /\ remain_[0] + remain_[1] > 0

\* ------------------------------------------------------------------ C4
\* C4 (per-queue FIFO): each sub-queue holds its elements in the order they
\* were enqueued into it; front(i) returns the value at its front and
\* removes nothing; dequeue(i) removes exactly its front; and no call other
\* than enqueue(i, .) does anything to sub-queue i except remove its front
\* (dequeue(), when that front is the global front) -- a dequeue(j) or an
\* enqueue(j, .) with j # i leaves it as it is.  So repeated front(i) /
\* dequeue(i) yield the values of sub-queue i in their enqueue order.
InEnqueueOrder(s) == \A n \in 1 .. Len(s) - 1 : s[n].g < s[n + 1].g

PerQueueFIFOStep(q, qn, i) ==
    /\ InEnqueueOrder(q[i])
    /\ (call'.op = "front_i" /\ call'.i = i /\ q[i] # <<>>) => qn = q
    /\ (call'.op = "dequeue_i" /\ call'.i = i /\ q[i] # <<>>) =>
            qn[i] = Tail(q[i])
    /\ (call'.op \in {"dequeue_i", "enqueue"} /\ call'.i # i) => qn[i] = q[i]
    /\ (call'.op = "dequeue") =>
            qn[i] = q[i] \/ (q[i] # <<>> /\ qn[i] = Tail(q[i]))

FrontIReturnsFront(i) ==
    (call'.op = "front_i" /\ call'.i = i) =>
        /\ queues_[i] # <<>> => retA' = Head(queues_[i]).second
        /\ data_queue_[i] # <<>> => retB' = Head(data_queue_[i]).data

PerQueueFIFO ==
    [][\A i \in Index :
        /\ PerQueueFIFOStep(queues_, queues_', i)
        /\ PerQueueFIFOStep(data_queue_, data_queue_', i)
        /\ FrontIReturnsFront(i)]_vars

\* dequeue(1) has just been called for the second time: sub-queue 1 received
\* the 1st, 3rd and 5th values and now holds the 5th alone, while sub-queue 0
\* still holds the 2nd and 4th.
PerQueueFIFOWitness ==
    /\ call.op = "dequeue_i" /\ call.i = 1
    /\ Running
    /\ Len(queues_[1]) = 1 /\ Head(queues_[1]).g = 4
    /\ Len(data_queue_[1]) = 1 /\ Head(data_queue_[1]).g = 4
    /\ Len(queues_[0]) = 2 /\ Len(data_queue_[0]) = 2

\* ------------------------------------------------------------------ C5
\* C5 (non-interference): a dequeue(i) on a non-empty sub-queue i leaves
\* size(j) as it was for every j # i, and front(j) as it was for every
\* non-empty sub-queue j # i.
NonInterferenceStep(q, qn) ==
    \A i \in Index :
        (call'.op = "dequeue_i" /\ call'.i = i /\ q[i] # <<>>) =>
            \A j \in Index \ {i} :
                /\ Len(qn[j]) = Len(q[j])
                /\ q[j] # <<>> => Head(qn[j]) = Head(q[j])

NonInterference ==
    [][/\ NonInterferenceStep(queues_, queues_')
       /\ NonInterferenceStep(data_queue_, data_queue_')]_vars

\* dequeue(0) has just removed an element that was not the global front: the
\* first value enqueued is still at the front of sub-queue 1.
NonInterferenceWitness ==
    /\ call.op = "dequeue_i" /\ call.i = 0
    /\ Running
    /\ queues_[1] # <<>> /\ Head(queues_[1]).g = 0
    /\ data_queue_[1] # <<>> /\ Head(data_queue_[1]).g = 0
    /\ remain_[0] >= 1
    /\ gseq >= 3

\* ------------------------------------------------------------------ C6
\* C6 (enqueue): a successful enqueue(i, v) puts v at the back of sub-queue
\* i and leaves every other sub-queue as it was; size(i) and size() grow by
\* one; the new element is last in the global order (in A its tag is above
\* the tag of every element held, in B its index entry is appended to
\* index_queue_), so it is read by front() only once everything held before
\* is gone; front() reads the same element as before if the structure was
\* not empty, and front(i) the same if sub-queue i was not empty.
Tags(q) == UNION {{q[i][n].first : n \in 1 .. Len(q[i])} : i \in Index}

EnqueueAppendsA(i) ==
    (call'.op = "enqueue" /\ call'.i = i /\ retA' = "true") =>
        LET e == queues_'[i][Len(queues_'[i])] IN
        /\ queues_' = [queues_ EXCEPT ![i] = Append(@, e)]
        /\ e.second = call'.v
        /\ e.g = gseq
        /\ \A t \in Tags(queues_) : t < e.first
        /\ \A g \in Stamps(queues_) : g < e.g
        /\ Len(queues_'[i]) = Len(queues_[i]) + 1
        /\ sizeA' = sizeA + 1
        /\ Stamps(queues_) # {} =>
                /\ find_oldest_front(queues_') = find_oldest_front(queues_)
                /\ Head(queues_'[find_oldest_front(queues_')])
                        = Head(queues_[find_oldest_front(queues_)])
        /\ queues_[i] # <<>> => Head(queues_'[i]) = Head(queues_[i])

EnqueueAppendsB(i) ==
    (call'.op = "enqueue" /\ call'.i = i /\ statusB' = "run") =>
        LET e == data_queue_'[i][Len(data_queue_'[i])] IN
        /\ data_queue_' = [data_queue_ EXCEPT ![i] = Append(@, e)]
        /\ e.data = call'.v
        /\ e.g = gseq
        /\ index_queue_' = Append(index_queue_, i)
        /\ remain_' = remain_
        /\ \A g \in Stamps(data_queue_) : g < e.g
        /\ Len(data_queue_'[i]) = Len(data_queue_[i]) + 1
        /\ sizeB' = sizeB + 1
        /\ Stamps(data_queue_) # {} =>
                /\ Head(index_queue_') = Head(index_queue_)
                /\ Head(data_queue_'[Head(index_queue_')])
                        = Head(data_queue_[Head(index_queue_)])
        /\ data_queue_[i] # <<>> => Head(data_queue_'[i]) = Head(data_queue_[i])

EnqueueAppends ==
    [][\A i \in Index : EnqueueAppendsA(i) /\ EnqueueAppendsB(i)]_vars

\* enqueue(0, .) has just succeeded on a structure that held values in both
\* sub-queues, the global front being in sub-queue 1, after the insertion
\* counter of A had been reset by an earlier drain (tag 2 for the 5th call).
EnqueueAppendsWitness ==
    /\ call.op = "enqueue" /\ call.i = 0 /\ retA = "true"
    /\ Running
    /\ Len(queues_[0]) = 2 /\ Len(data_queue_[0]) = 2
    /\ queues_[1] # <<>> /\ data_queue_[1] # <<>>
    /\ find_oldest_front(queues_) = 1 /\ Head(index_queue_) = 1
    /\ queues_[0][2].g = 4 /\ queues_[0][2].first < 4

\* ------------------------------------------------------------------ C7
\* C7 (empty and size agree): in every reachable state empty() holds exactly
\* when size() is 0, and empty(i) exactly when size(i) is 0; in B, where
\* empty() reads index_queue_ and size() reads length_, index_queue_ is empty
\* exactly when length_ is 0.
EmptyIffSizeZero ==
    /\ emptyA <=> (sizeA = 0)
    /\ emptyB <=> (sizeB = 0)
    /\ \A i \in Index :
        /\ emptyAi(i) <=> (sizeAi(i) = 0)
        /\ emptyBi(i) <=> (sizeBi(i) = 0)

\* A dequeue(i) that was not on the global front has left a stale entry in
\* index_queue_, which is longer than length_ says, and values are still held.
EmptyIffSizeZeroWitness ==
    /\ Running
    /\ call.op = "dequeue_i" /\ call.preB
    /\ Len(index_queue_) > sizeB
    /\ sizeB >= 1 /\ ~emptyB
    /\ sizeA >= 1 /\ ~emptyA

\* ------------------------------------------------------------------ C8
\* C8 (drain completeness): in every reachable state in which every
\* sub-queue is empty, empty() is true and size() is 0, in A and in B.
DrainCompleteness ==
    /\ (\A i \in Index : queues_[i] = <<>>) => (emptyA /\ sizeA = 0)
    /\ (\A i \in Index : data_queue_[i] = <<>>) => (emptyB /\ sizeB = 0)

\* Every sub-queue has been drained, the last value by a dequeue(i), after
\* at least three values had been stored.
DrainCompletenessWitness ==
    /\ Running
    /\ call.op = "dequeue_i" /\ call.preA /\ call.preB
    /\ \A i \in Index : queues_[i] = <<>> /\ data_queue_[i] = <<>>
    /\ gseq >= 3

\* ------------------------------------------------------------------ C9
\* The calls C9 is about.
Guarded == {"front", "dequeue", "front_i", "dequeue_i"}

FailFastStep ==
    (~NDEBUG /\ call'.op \in Guarded) =>
        /\ ~call'.preB => statusB' = "abort"
        /\ (~call'.preA /\ call'.op \in {"front", "front_i"}) =>
                statusA' = "abort"
        /\ (call'.op = "dequeue_i" /\ ~(call'.i < SIZE)) => statusA' = "abort"
        /\ (~call'.preA /\ (\/ call'.op = "dequeue"
                            \/ call'.op = "dequeue_i" /\ call'.i < SIZE)) =>
                /\ statusA' = "run"
                /\ retA' = "void"
                /\ UNCHANGED <<queues_, count_, length_>>
        /\ statusA' = "abort" => UNCHANGED <<queues_, count_, length_>>
        /\ statusB' = "abort" =>
                UNCHANGED <<index_queue_, data_queue_, remain_, length_B>>

TagsFollowInsertionOrder ==
    \A i, j \in Index :
        \A n \in 1 .. Len(queues_[i]), m \in 1 .. Len(queues_[j]) :
            queues_[i][n].g < queues_[j][m].g =>
                queues_[i][n].first < queues_[j][m].first

\* C10 as stated (capacity exhaustion, A): an enqueue(i, v) with a valid i
\* made when count_ has reached ULONG_MAX returns false and changes nothing.
CapacityReturnsFalse ==
    [][(call'.op = "enqueue" /\ call'.i < SIZE /\ call'.full) =>
            /\ retA' = "false"
            /\ statusA' = "run"
            /\ UNCHANGED <<queues_, count_, length_>>]_vars

\* C10 as amended: an enqueue(i, v) with a valid i made when count_ has
\* reached ULONG_MAX changes nothing, and either returns false (assertions
\* compiled out) or stops on the assertion count_ < ULONG_MAX (assertions
\* on); no enqueue wraps the counter -- it leaves count_ or adds one to it,
\* never beyond ULONG_MAX -- and the tags of the elements held follow their
\* insertion order.
CapacityStep ==
    /\ (call'.op = "enqueue" /\ call'.i < SIZE /\ call'.full) =>
            /\ UNCHANGED <<queues_, count_, length_>>
            /\ IF NDEBUG THEN retA' = "false" /\ statusA' = "run"
                         ELSE statusA' = "abort"
    /\ call'.op = "enqueue" =>
            /\ count_' \in {count_, count_ + 1}
            /\ count_' <= ULONG_MAX
            /\ retA' = "true" => count_' = count_ + 1
    /\ TagsFollowInsertionOrder
    /\ TagsFollowInsertionOrder'

CapacityExhaustion == [][CapacityStep]_vars

\* Assertions compiled out: enqueue has just returned false with the counter
\* at ULONG_MAX, while B stored the value.
CapacityExhaustionWitness ==
    /\ NDEBUG
    /\ call.op = "enqueue" /\ call.i < SIZE /\ call.full
    /\ retA = "false" /\ statusA = "run"
    /\ count_ = ULONG_MAX
    /\ sizeA >= 1 /\ sizeB = sizeA + 1

\* ----------------------------------------------------------------- C11
\* C11 (counter reset, A): in every reachable state in which length_ is 0,
\* count_ is 0 and every sub-queue is empty -- the state of a freshly
\* constructed MultiQueue, whichever dequeue removed the last element -- so
\* that what follows is what follows construction; in particular the first
\* element stored after a drain carries tag 0 again.
FreshA ==
    /\ count_ = 0
    /\ length_ = 0
    /\ queues_ = [i \in Index |-> <<>>]

CounterReset ==
    /\ length_ = 0 => FreshA
    /\ (length_ = 1 /\ call.op = "enqueue" /\ retA = "true") =>
            \A i \in Index : queues_[i] # <<>> => Head(queues_[i]).first = 0

\* The structure has been drained, the last element by dequeue(i), after
\* three or more values had been stored with tags up to 2 or more.
CounterResetWitness ==
    /\ Running
    /\ call.op = "dequeue_i" /\ call.preA
    /\ length_ = 0 /\ count_ = 0
    /\ gseq >= 3

\* ----------------------------------------------------------------- C12
\* A and B hold the same elements (value and stamp) in the same sub-queues
\* in the same order.
SameContents ==
    \A i \in Index :
        /\ Len(queues_[i]) = Len(data_queue_[i])
        /\ \A n \in 1 .. Len(queues_[i]) :
            /\ queues_[i][n].second = data_queue_[i][n].data
            /\ queues_[i][n].g = data_queue_[i][n].g

\* What front() returns in A and in B, when the structure is not empty.
frontValueA == Head(queues_[find_oldest_front(queues_)]).second
frontValueB == Head(data_queue_[Head(index_queue_)]).data

\* size(), size(i), empty(), empty(i), front() and front(i) give the same
\* results in A and B.
SameObservations ==
    /\ sizeA = sizeB
    /\ emptyA = emptyB
    /\ ~emptyA => frontValueA = frontValueB
    /\ \A i \in Index :
        /\ sizeAi(i) = sizeBi(i)
        /\ emptyAi(i) = emptyBi(i)
        /\ ~emptyAi(i) => Head(queues_[i]).second = Head(data_queue_[i]).data

\* The call just made met the contract's preconditions on both sides: a
\* valid index, a non-empty structure or sub-queue where one is required,
\* and, for enqueue, an insertion counter that is not exhausted.
RespectsPreconditions(c) ==
    /\ c.preA /\ c.preB
    /\ ~(c.op = "enqueue" /\ c.full)

\* C12 (the two implementations are indistinguishable): A and B start with
\* the same contents; every call that respects the preconditions, made when
\* they hold the same contents, leaves both running with the same contents
\* again and returns the same value from front() and front(i); and with the
\* same contents every observer gives the same result.  Hence, side by side
\* on any sequence of calls that respects the preconditions, they agree
\* after every step.
IndistinguishableStep ==
    /\ SameContents => SameObservations
    /\ (SameContents /\ RespectsPreconditions(call')) =>
            /\ statusA' = "run" /\ statusB' = "run"
            /\ SameContents'
            /\ SameObservations'
            /\ call'.op \in {"front", "front_i"} => retA' = retB'

Indistinguishable == SameContents /\ [][IndistinguishableStep]_vars

\* Both hold the same three values after enqueues, a dequeue(0) that left a
\* stale entry in index_queue_, and a front() that returned the same value.
IndistinguishableWitness ==
    /\ Running
    /\ call.op = "front" /\ RespectsPreconditions(call)
    /\ retA = retB
    /\ SameContents
    /\ sizeA = 3 /\ sizeB = 3
    /\ remain_[0] >= 1
    /\ count_ = 4

\* ----------------------------------------------------------------- C15
\* C15 (front of the index queue, B): after every operation, index_queue_ is
\* empty, or its front names a sub-queue whose deficit remain_ is 0 and whose
\* data queue is not empty; so front(), which reads that entry without
\* purging, reads a held element.
IndexFrontLive ==
    \/ index_queue_ = <<>>
    \/ LET k == Head(index_queue_) IN
       /\ k \in Index
       /\ remain_[k] = 0
       /\ data_queue_[k] # <<>>

\* dequeue(0) has just emptied sub-queue 0: the front of index_queue_ names
\* sub-queue 1, which holds the fourth value stored, and no deficit is left.
IndexFrontLiveWitness ==
    /\ Running
    /\ call.op = "dequeue_i" /\ call.i = 0 /\ call.preB
    /\ index_queue_ # <<>> /\ Head(index_queue_) = 1
    /\ Len(index_queue_) = 1
    /\ remain_[0] = 0 /\ remain_[1] = 0
    /\ data_queue_[0] = <<>> /\ Len(data_queue_[1]) = 1
    /\ Head(data_queue_[1]).g = 3

\* ----------------------------------------------------------------- C16
\* The number of entries equal to i in the index queue iq.
RECURSIVE Occurrences(_, _)
Occurrences(iq, i) ==
    IF iq = <<>> THEN 0
    ELSE (IF Head(iq) = i THEN 1 ELSE 0) + Occurrences(Tail(iq), i)

\* C16 (deficit accounting, B): in every reachable state, for every
\* sub-queue i, remain_[i] is the number of entries i in index_queue_ minus
\* size(i), and it is never below 0.
DeficitAccounting ==
    \A i \in Index :
        /\ remain_[i] = Occurrences(index_queue_, i) - sizeBi(i)
        /\ remain_[i] >= 0

\* Two dequeue(1) calls have left two stale entries behind the global
\* front, which is in sub-queue 0.
DeficitAccountingWitness ==
    /\ Running
    /\ call.op = "dequeue_i" /\ call.i = 1 /\ call.preB
    /\ remain_[1] = 2 /\ remain_[0] = 0
    /\ Head(index_queue_) = 0
    /\ Occurrences(index_queue_, 1) >= 3

\* ----------------------------------------------------------------- C17
\* The index queue iq without the first rem[i] entries of each i.
RECURSIVE Purged(_, _)
Purged(iq, rem) ==
    IF iq = <<>> THEN <<>>
    ELSE LET i == Head(iq) IN
         IF rem[i] > 0 THEN Purged(Tail(iq), [rem EXCEPT ![i] = @ - 1])
         ELSE <<i>> \o Purged(Tail(iq), rem)

\* The sub-queues of q that hold the elements stamped in S, oldest first.
RECURSIVE OwnersInOrder(_, _)
OwnersInOrder(q, S) ==
    IF S = {} THEN <<>>
    ELSE <<Owner(q, Oldest(S))>> \o OwnersInOrder(q, S \ {Oldest(S)})

\* C17 (where the stale entries are, B): in every reachable state,
\* index_queue_ without the first remain_[i] entries of each i is the
\* sequence of the sub-queues of the elements held, in insertion order; the
\* entries the purge skips are those of removed elements.
StaleEntriesFirst ==
    Purged(index_queue_, remain_)
        = OwnersInOrder(data_queue_, Stamps(data_queue_))

\* index_queue_ reads 0, 1, 0, 1 with the first entry 1 stale: the elements
\* held are, oldest first, in sub-queues 0, 0, 1.
StaleEntriesFirstWitness ==
    /\ Running
    /\ call.op = "dequeue_i" /\ call.i = 1 /\ call.preB
    /\ index_queue_ = <<0, 1, 0, 1>>
    /\ remain_ = [i \in Index |-> IF i = 1 THEN 1 ELSE 0]
    /\ Len(data_queue_[0]) = 2 /\ Len(data_queue_[1]) = 1

\* ----------------------------------------------------------------- C18
\* C18 (tags, A): in every reachable state the tags of the elements held
\* are pairwise distinct, increase strictly from front to back within each
\* sub-queue, and are all below count_; so exactly one sub-queue front
\* carries the smallest tag held, and it is the one find_oldest_front names.
TagsDistinct ==
    \A i, j \in Index :
        \A n \in 1 .. Len(queues_[i]), m \in 1 .. Len(queues_[j]) :
            (queues_[i][n].first = queues_[j][m].first) => (i = j /\ n = m)

TagsIncrease ==
    \A i \in Index : \A n \in 1 .. Len(queues_[i]) - 1 :
        queues_[i][n].first < queues_[i][n + 1].first

TagsBelowCounter == \A t \in Tags(queues_) : t < count_

OldestFrontUnique ==
    Tags(queues_) # {} =>
        LET least == Oldest(Tags(queues_))
            at == {i \in Index : queues_[i] # <<>> /\ Head(queues_[i]).first = least}
        IN  at = {find_oldest_front(queues_)}

TagUniqueness ==
    /\ TagsDistinct
    /\ TagsIncrease
    /\ TagsBelowCounter
    /\ OldestFrontUnique

\* Both sub-queues hold two elements each, stored alternately after a drain
\* had reset the counter: tags 0..3 for the 2nd to 5th value.
TagUniquenessWitness ==
    /\ Running
    /\ call.op = "enqueue" /\ retA = "true"
    /\ Len(queues_[0]) = 2 /\ Len(queues_[1]) = 2
    /\ count_ = 4 /\ gseq = 5
    /\ Head(queues_[1]).first = 0

\* ----------------------------------------------------------------- C19
\* C19 (no-op on empty, A): a dequeue() made when the structure is empty,
\* and a dequeue(i) with a valid i made when sub-queue i is empty, return
\* and leave every sub-queue, length_ and count_ as they were, in either
\* build.
NoOpOnEmptyStep ==
    (/\ ~call'.preA
     /\ \/ call'.op = "dequeue"
        \/ call'.op = "dequeue_i" /\ call'.i < SIZE) =>
        /\ UNCHANGED <<queues_, count_, length_>>
        /\ statusA' = "run"
        /\ retA' = "void"

NoOpOnEmpty == [][NoOpOnEmptyStep]_vars

\* dequeue() has been called on a structure drained after two or more
\* enqueues: A has returned and holds nothing, B has not returned normally.
NoOpOnEmptyWitness ==
    /\ call.op = "dequeue" /\ ~call.preA
    /\ statusA = "run" /\ retA = "void"
    /\ statusB # "run"
    /\ FreshA
    /\ gseq >= 2

\* ----------------------------------------------------------------- C20
\* C20 (the assertions i < SIZE, A): find_oldest_front returns SIZE only
\* when every sub-queue is empty; so in every reachable state with
\* length_ > 0 it names a valid, non-empty sub-queue, and a front() or
\* dequeue() made on a non-empty structure passes its assertion.
ScanFindsFront ==
    /\ find_oldest_front(queues_) \in AnyIndex
    /\ find_oldest_front(queues_) = SIZE => \A i \in Index : queues_[i] = <<>>
    /\ length_ > 0 =>
            /\ find_oldest_front(queues_) < SIZE
            /\ queues_[find_oldest_front(queues_)] # <<>>
    /\ (call.op \in {"front", "dequeue"} /\ call.preA) => statusA = "run"

\* dequeue() has just left sub-queue 0 empty and sub-queue 1 not: the scan
\* has to pass over the empty sub-queue 0 to find the front.
ScanFindsFrontWitness ==
    /\ Running
    /\ call.op = "dequeue" /\ call.preA
    /\ length_ > 0
    /\ queues_[0] = <<>> /\ queues_[1] # <<>>
    /\ find_oldest_front(queues_) = 1

\* ----------------------------------------------------------------- C13
Sizes(n, n0, n1) ==
    /\ sizeA = n /\ sizeB = n
    /\ sizeAi(0) = n0 /\ sizeBi(0) = n0
    /\ sizeAi(1) = n1 /\ sizeBi(1) = n1

\* C13 as stated (scenario "ccccddcdcdccdd", under SpecMain, Script(1)):
\* after the 14 enqueues size() is 14, size(0) is 9 and size(1) is 5; each
\* of the five front(1) returns 'd', and after the five dequeue(1) size() is
\* 9 and empty(1) holds; each of the nine front(0) returns 'c'; at the end
\* empty() holds.
DrainAsStated ==
    pc.s = 1 =>
        /\ pc.n = DataLen => Sizes(14, 9, 5)
        /\ (call.op = "front_i" /\ call.i = 1) => retA = "d" /\ retB = "d"
        /\ pc.n = DataLen + 10 =>
                /\ sizeA = 9 /\ sizeB = 9
                /\ emptyAi(1) /\ emptyBi(1)
        /\ (call.op = "front_i" /\ call.i = 0) => retA = "c" /\ retB = "c"
        /\ pc.n = DataLen + 10 + 18 => emptyA /\ emptyB

\* C13 as amended: "ccccddcdcdccdd" has eight 'c' and six 'd'. After the 14
\* enqueues size() is 14, size(0) is 8 and size(1) is 6. Under Script(4)
\* every call returns normally in A and in B; each of the six front(1)
\* returns 'd', and after the six dequeue(1) size() is 8 and empty(1) holds;
\* each of the eight front(0) returns 'c'; at the end empty() holds. Under
\* Script(1), the five dequeue(1) leave size() at 9 with one 'd' in
\* sub-queue 1, and the ninth front(0) is called on an empty sub-queue 0.
DrainScenario ==
    /\ pc.s \in {1, 4} /\ pc.n = DataLen => Running /\ Sizes(14, 8, 6)
    /\ pc.s = 4 =>
        /\ Running
        /\ pc.n > 0 => call.preA /\ call.preB
        /\ (call.op = "front_i" /\ call.i = 1) => retA = "d" /\ retB = "d"
        /\ pc.n = DataLen + 12 =>
                /\ Sizes(8, 8, 0)
                /\ emptyAi(1) /\ emptyBi(1)
                /\ ~emptyA /\ ~emptyB
        /\ (call.op = "front_i" /\ call.i = 0) => retA = "c" /\ retB = "c"
        /\ pc.n = DataLen + 12 + 16 => emptyA /\ emptyB /\ Sizes(0, 0, 0)
    /\ pc.s = 1 =>
        /\ pc.n = DataLen + 10 =>
                /\ Running
                /\ Sizes(9, 8, 1)
                /\ ~emptyAi(1) /\ ~emptyBi(1)
        /\ pc.n = DataLen + 10 + 16 =>
                /\ Running
                /\ Sizes(1, 0, 1)
                /\ ~emptyA /\ ~emptyB
        /\ pc.n = DataLen + 10 + 17 =>
                /\ call.op = "front_i" /\ call.i = 0
                /\ ~call.preA /\ ~call.preB

\* Script(4) has been run to its end.
DrainScenarioWitness ==
    /\ pc.s = 4 /\ pc.n = Len(Script(4))
    /\ pc.n = 42
    /\ call.op = "dequeue_i" /\ call.i = 0
    /\ gseq = 14

\* ----------------------------------------------------------------- C14
\* C14 as stated (interleaving scenario, under SpecMain, Script(2)): after
\* a -> 0, b -> 1, c -> 0, front() returns a; after dequeue(), front()
\* returns b; after the dequeue(0) that follows, which removes c, empty()
\* holds.
InterleavingAsStated ==
    pc.s = 2 =>
        /\ pc.n = 4 => retA = "a" /\ retB = "a"
        /\ pc.n = 6 => retA = "b" /\ retB = "b"
        /\ pc.n = 7 => emptyA /\ emptyB

\* C14 as amended: every call of the script returns normally in A and in B;
\* after a -> 0, b -> 1, c -> 0, front() returns a; after dequeue(), front()
\* returns b and c is alone in sub-queue 0; after the dequeue(0) that
\* follows, which removes c, empty(0) holds but empty() does not: b is still
\* held in sub-queue 1, size() is 1 and front() would return b.
InterleavingScenario ==
    pc.s = 2 =>
        /\ Running
        /\ pc.n > 0 => call.preA /\ call.preB
        /\ pc.n = 4 => retA = "a" /\ retB = "a"
        /\ pc.n = 6 =>
                /\ retA = "b" /\ retB = "b"
                /\ Len(queues_[0]) = 1 /\ Head(queues_[0]).second = "c"
                /\ Len(data_queue_[0]) = 1 /\ Head(data_queue_[0]).data = "c"
        /\ pc.n = 7 =>
                /\ emptyAi(0) /\ emptyBi(0)
                /\ ~emptyA /\ ~emptyB
                /\ Sizes(1, 0, 1)
                /\ frontValueA = "b" /\ frontValueB = "b"

\* The script has been run to its end.
InterleavingScenarioWitness ==
    /\ pc.s = 2 /\ pc.n = Len(Script(2))
    /\ call.op = "dequeue_i" /\ call.i = 0
    /\ gseq = 3

====
